---- MODULE Spec2Model ----
(***************************************************************************)
(* Model of the external-browser OAuth/PKCE application: OAuthPKCE,        *)
(* TokenStorage/TokenManager and AuthenticationManager.                    *)
(*                                                                         *)
(* JavaScript is single threaded: the code between two awaits runs as one  *)
(* step.  Every await of an external operation (a keytar call, a fetch,    *)
(* shell.openExternal) is two steps: the external operation takes effect,  *)
(* and later the continuation of the awaiting function runs.  Absent       *)
(* values (null, undefined, a missing field) are 0 for numbers and ids,    *)
(* which is falsy in JavaScript as null is, and <<>> for an absent record. *)
(***************************************************************************)
EXTENDS Integers, Sequences, FiniteSets, TLC

\* ---------------------------------------------------------------- bounds
\* calls that may be in progress at the same time
MaxTasks == 2
\* calls made in one behaviour
MaxCalls == 3
\* one second of Date.now() is TicksPerSec clock ticks
TicksPerSec == 2
\* the clock runs from StartNow to StartNow + MaxTicks
MaxTicks == 2

\* the application starts in the third second of the clock
StartNow == 3 * TicksPerSec
Tasks == 1..MaxTasks

VARIABLES
  tasks,            \* the async calls: their operation, position and locals
  store,            \* the keytar entry of TokenStorage: <<>> or <<record>>
  refreshPromise,   \* TokenManager.refreshPromise: 0 or the task performing it
  now,              \* Date.now(), in ticks
  tokenSeq,         \* tokens issued by the provider so far
  refreshRequests,  \* refresh requests sent to the token endpoint so far
  inFlight,         \* refresh requests sent and not yet answered
  calls,            \* calls made so far
  authState,        \* AuthenticationManager.authState
  pkce,             \* OAuthPKCE: codeVerifier, codeChallenge, state
  randomSeq,        \* random strings drawn by generateRandomString so far
  opened,           \* the authorization URLs the external browser has opened
  loginWindow,      \* AuthenticationManager.loginWindow is open
  authErrors,       \* auth:error messages sent to the login window so far
  lastAuthError,    \* the last of them
  pendingFileToOpen,\* AuthenticationManager.pendingFileToOpen: 0 or a file
  variant,          \* which backend manager the application uses
  exe,              \* the executable of each backend: ok, missing, unspawnable
  batch,            \* startBackends: where it is suspended, or how it ended
  starts,           \* the promise of startBackend / startProcess of each backend
  procs,            \* the child process of each backend and its handlers' state
  processes,        \* this.processes (SimpleBackendManager: its process fields)
  ports,            \* this.ports (SimpleBackendManager: its port fields)
  serviceRegistry,  \* AdvancedBackendManager.serviceRegistry: the names in it
  bclock,           \* seconds since startBackends was called
  shutdowns,        \* calls of shutdown() / cleanup() made from outside so far
  notify,           \* the discovery request to each backend: none, sent, outcome
  app,              \* the application: running, quitting (app.quit() is due), quit
  prevented         \* before-quit events whose default was prevented so far

tmVars == <<store, refreshPromise, now, tokenSeq, refreshRequests, inFlight>>
authVars == <<authState, pkce, randomSeq, opened, loginWindow, authErrors,
              lastAuthError, pendingFileToOpen>>
backendVars == <<variant, exe, batch, starts, procs, processes, ports,
                 serviceRegistry, bclock, shutdowns, notify, app, prevented>>
vars == <<tasks, calls, tmVars, authVars, backendVars>>

\* ------------------------------------------------------------ token data
\* A token record, as the provider returns it and as it is stored.
Token(at, rt, ein, iat, eat) ==
  [access_token |-> at, refresh_token |-> rt, expires_in |-> ein,
   issued_at |-> iat, expires_at |-> eat]

\* The shapes of a token response: with or without a refresh token, with or
\* without expiration metadata, with an issued_at of the provider's own.
\* isTokenExpired takes a record without expiration metadata as expired.
ResponseShapes ==
  { [rt |-> TRUE,  ein |-> 0, iat |-> 0],
    [rt |-> FALSE, ein |-> 0, iat |-> 0],
    [rt |-> FALSE, ein |-> 1, iat |-> 1] }

\* response.json() of the n-th token the provider issues
ProviderTokens(n, shape) ==
  Token(n, IF shape.rt THEN n ELSE 0, shape.ein, shape.iat, 0)

\* Math.floor(Date.now() / 1000)
NowSeconds == now \div TicksPerSec

addIssuedAt_ProviderWins(tokenData) ==
  IF tokenData.issued_at # 0 THEN tokenData
  ELSE [tokenData EXCEPT !.issued_at = NowSeconds]

\* OAuthPKCE.addIssuedAt
addIssuedAt(tokenData) ==
  [tokenData EXCEPT !.issued_at = NowSeconds]

isTokenExpired_AtExpiry(tokenData) ==
  IF tokenData.expires_at # 0
    THEN now >= tokenData.expires_at * TicksPerSec
    ELSE IF tokenData.expires_in # 0 /\ tokenData.issued_at # 0
      THEN now >= (tokenData.issued_at + tokenData.expires_in) * TicksPerSec
      ELSE TRUE

\* OAuthPKCE.isTokenExpired on a record that is not null
isTokenExpired(tokenData) ==
  IF tokenData.expires_at # 0
    THEN now > tokenData.expires_at * TicksPerSec
    ELSE IF tokenData.expires_in # 0 /\ tokenData.issued_at # 0
      THEN now > (tokenData.issued_at + tokenData.expires_in) * TicksPerSec
      ELSE TRUE

\* What the credential store may hold when the application starts.
\* nothing, a record that is expired, one that expires with the next tick, one
\* without a refresh token, one without expiration metadata.
InitialStores ==
  { <<>>,
    <<Token(100, 100, 1, 1, 0)>>,
    <<Token(100, 100, 1, 2, 0)>>,
    <<Token(100, 0, 1, 1, 0)>>,
    <<Token(100, 100, 0, 1, 0)>> }

\* ----------------------------------------------------------------- tasks
\* op: the operation called; pc: the await it is suspended at; tok: the token
\* record it holds; arg: the URL it was called with or has built; res: what
\* it returned; solo: no other call was in progress during this one; file:
\* the file it has called openMainWindow with, 0 if none.
IdleTask == [op |-> "none", pc |-> "idle", tok |-> <<>>, arg |-> <<>>,
             res |-> 0, solo |-> FALSE, file |-> 0]

\* A call that has returned keeps its result until its slot is taken again.
Idle(t) == tasks[t].pc \in {"idle", "done"}
Active(t) == ~Idle(t)
NextFree(t) == Idle(t) /\ \A u \in Tasks : u < t => ~Idle(u)

\* a new call takes slot t
Call(t) ==
  /\ NextFree(t)
  /\ calls < MaxCalls
  /\ calls' = calls + 1
  /\ UNCHANGED backendVars

\* the tasks after the call newTask has taken slot t
Begin(t, newTask) ==
  [u \in Tasks |->
     IF u = t THEN [newTask EXCEPT !.solo = \A v \in Tasks \ {t} : Idle(v)]
     ELSE IF Active(u) THEN [tasks[u] EXCEPT !.solo = FALSE]
     ELSE tasks[u]]

Done(task, result) ==
  [task EXCEPT !.pc = "done", !.res = result, !.tok = <<>>, !.arg = <<>>,
               !.solo = FALSE]
At(task, pc) == [task EXCEPT !.pc = pc]

\* ----------------------------------------------------- TokenStorage (keytar)
\* The position after an await of a keytar call, by the position at it.
AfterKeytar(pc) ==
  CASE pc = "g_read" -> "g_got"
    [] pc = "f_read" -> "f_got"
    [] pc = "r_store" -> "r_stored"
    [] pc = "x_store" -> "x_stored"
    [] pc = "r_del" -> "r_deleted"
    [] pc = "g_del" -> "g_deleted"
    [] pc = "fl_del" -> "fl_deleted"
    [] pc = "o_del" -> "o_deleted"

\* keytar.getPassword of TokenStorage.getTokens takes effect
KeytarRead(t) ==
  /\ tasks[t].pc \in {"g_read", "f_read"}
  /\ tasks' = [tasks EXCEPT ![t] =
       [@ EXCEPT !.pc = AfterKeytar(tasks[t].pc), !.tok = store]]
  /\ UNCHANGED <<backendVars, calls, tmVars, authVars>>

\* keytar.setPassword of TokenStorage.storeTokens takes effect
KeytarWrite(t) ==
  /\ tasks[t].pc \in {"r_store", "x_store"}
  /\ store' = tasks[t].tok
  /\ tasks' = [tasks EXCEPT ![t] = At(@, AfterKeytar(tasks[t].pc))]
  /\ UNCHANGED <<backendVars, authVars, calls, refreshPromise, now, tokenSeq, refreshRequests, inFlight>>

\* keytar.deletePassword of TokenStorage.deleteTokens takes effect
KeytarDelete(t) ==
  /\ tasks[t].pc \in {"r_del", "g_del", "fl_del", "o_del"}
  /\ store' = <<>>
  /\ tasks' = [tasks EXCEPT ![t] = At(@, AfterKeytar(tasks[t].pc))]
  /\ UNCHANGED <<backendVars, authVars, calls, refreshPromise, now, tokenSeq, refreshRequests, inFlight>>

\* keytar.getPassword rejects, or JSON.parse throws on what it returned:
\* getTokens logs the error and returns null
KeytarReadError(t) ==
  /\ tasks[t].pc \in {"g_read", "f_read"}
  /\ tasks' = [tasks EXCEPT ![t] =
       [@ EXCEPT !.pc = AfterKeytar(tasks[t].pc), !.tok = <<>>]]
  /\ UNCHANGED <<backendVars, calls, tmVars, authVars>>

\* What getValidAccessToken returns to its caller when it rejects.
Threw == -1

DeleteFailed_Rethrows(task) ==
  IF task.op = "gvat" THEN Done(task, Threw)
  ELSE At(task, AfterKeytar(task.pc))

\* How a call goes on when keytar.deletePassword has rejected:
\* TokenStorage.deleteTokens logs the error and returns false, and no caller
\* looks at what it returns.
DeleteFailed(task) == At(task, AfterKeytar(task.pc))

\* keytar.deletePassword rejects
KeytarDeleteError(t) ==
  /\ tasks[t].pc \in {"r_del", "g_del", "fl_del", "o_del"}
  /\ tasks' = [tasks EXCEPT ![t] = DeleteFailed(@)]
  /\ UNCHANGED <<backendVars, calls, tmVars, authVars>>

\* another instance of the application, which shares the keytar entry,
\* deletes the record
OtherInstanceDeletes ==
  /\ store # <<>>
  /\ store' = <<>>
  /\ UNCHANGED <<backendVars, tasks, calls, authVars, refreshPromise, now, tokenSeq,
                 refreshRequests, inFlight>>

\* ------------------------------------------------------------ TokenManager
\* TokenManager.refreshTokens, called by task t with the record it read:
\* join the refresh in flight, or start _performTokenRefresh, which sends
\* the request of OAuthPKCE.refreshAccessToken before its first await.
refreshTokens_NoSlotCheck(t) ==
  /\ tasks' = [tasks EXCEPT ![t] = At(@, "r_fetch")]
  /\ refreshPromise' = t
  /\ refreshRequests' = refreshRequests + 1
  /\ inFlight' = inFlight + 1
  /\ UNCHANGED <<backendVars, authVars, calls, store, now, tokenSeq>>

refreshTokens(t) ==
  IF refreshPromise # 0
    THEN /\ tasks' = [tasks EXCEPT ![t] = At(@, "join")]
         /\ UNCHANGED <<backendVars, calls, tmVars, authVars>>
    ELSE /\ tasks' = [tasks EXCEPT ![t] = At(@, "r_fetch")]
         /\ refreshPromise' = t
         /\ refreshRequests' = refreshRequests + 1
         /\ inFlight' = inFlight + 1
         /\ UNCHANGED <<backendVars, authVars, calls, store, now, tokenSeq>>

\* isAuthenticated() of a getValidAccessToken result
IsAuthenticated(result) == result # 0

ReturnFromGvat_TrustsCache(t, result) ==
  LET op == tasks[t].op
      isAuth == IsAuthenticated(result) \/ (op = "status" /\ authState = "authenticated")
  IN
  /\ tasks' = [tasks EXCEPT ![t] =
       Done(@, IF op = "gvat" THEN result ELSE IF isAuth THEN 1 ELSE 0)]
  /\ authState' =
       IF op = "status"
         THEN IF isAuth THEN "authenticated" ELSE "unauthenticated"
         ELSE authState
  /\ pendingFileToOpen' =
       IF op = "file" /\ ~isAuth THEN tasks[t].arg ELSE pendingFileToOpen
  /\ loginWindow' = IF op = "file" /\ ~isAuth THEN TRUE ELSE loginWindow
  /\ UNCHANGED <<pkce, randomSeq, opened, authErrors, lastAuthError>>

\* getValidAccessToken of task t returns result, and the function that awaits
\* it goes on in the same turn: getAuthStatus sets the state from
\* isAuthenticated, handleFileOpen opens the file or keeps it and shows the
\* login window.
ReturnFromGvat(t, result) ==
  LET op == tasks[t].op IN
  /\ tasks' = [tasks EXCEPT ![t] =
       Done([@ EXCEPT !.file = IF op = "file" /\ IsAuthenticated(result)
                                 THEN tasks[t].arg ELSE 0],
            IF op = "gvat" THEN result
            ELSE IF IsAuthenticated(result) THEN 1 ELSE 0)]
  /\ authState' =
       IF op = "status"
         THEN IF IsAuthenticated(result) THEN "authenticated" ELSE "unauthenticated"
         ELSE authState
  /\ pendingFileToOpen' =
       IF op = "file" /\ ~IsAuthenticated(result) THEN tasks[t].arg
       ELSE pendingFileToOpen
  /\ loginWindow' =
       IF op = "file" /\ ~IsAuthenticated(result) THEN TRUE ELSE loginWindow
  /\ UNCHANGED <<pkce, randomSeq, opened, authErrors, lastAuthError>>

\* TokenManager.getValidAccessToken is called
StartGetValidAccessToken(t) ==
  /\ Call(t)
  /\ tasks' = Begin(t, [IdleTask EXCEPT !.op = "gvat", !.pc = "g_read"])
  /\ UNCHANGED <<tmVars, authVars>>

\* getValidAccessToken after await getTokens()
GetValidAccessTokenRead(t) ==
  /\ tasks[t].pc = "g_got"
  /\ LET tokens == tasks[t].tok IN
     IF tokens = <<>>
       THEN /\ ReturnFromGvat(t, 0)
            /\ UNCHANGED <<backendVars, calls, tmVars>>
     ELSE IF ~isTokenExpired(tokens[1])
       THEN /\ ReturnFromGvat(t, tokens[1].access_token)
            /\ UNCHANGED <<backendVars, calls, tmVars>>
     ELSE IF tokens[1].refresh_token # 0
       THEN refreshTokens(t)
     ELSE /\ tasks' = [tasks EXCEPT ![t] = At(@, "g_del")]
          /\ UNCHANGED <<backendVars, calls, tmVars, authVars>>

\* TokenManager.forceTokenRefresh is called
StartForceTokenRefresh(t) ==
  /\ Call(t)
  /\ tasks' = Begin(t, [IdleTask EXCEPT !.op = "ftr", !.pc = "f_read"])
  /\ UNCHANGED <<tmVars, authVars>>

\* forceTokenRefresh after await getTokens()
ForceTokenRefreshRead(t) ==
  /\ tasks[t].pc = "f_got"
  /\ LET tokens == tasks[t].tok IN
     IF tokens = <<>> \/ tokens[1].refresh_token = 0
       THEN /\ tasks' = [tasks EXCEPT ![t] = Done(@, 0)]
            /\ UNCHANGED <<backendVars, calls, tmVars, authVars>>
       ELSE refreshTokens(t)

RefreshResponseOk_NoStamp(t) ==
  /\ tasks[t].pc = "r_fetch"
  /\ \E shape \in ResponseShapes :
       LET newTokens == ProviderTokens(tokenSeq + 1, shape)
           tokenData == IF newTokens.refresh_token = 0
                          THEN [newTokens EXCEPT !.refresh_token =
                                  tasks[t].tok[1].refresh_token]
                          ELSE newTokens
       IN tasks' = [tasks EXCEPT ![t] = [@ EXCEPT !.pc = "r_store",
                                                  !.tok = <<tokenData>>]]
  /\ tokenSeq' = tokenSeq + 1
  /\ inFlight' = inFlight - 1
  /\ UNCHANGED <<backendVars, authVars, calls, store, refreshPromise, now, refreshRequests>>

RefreshResponseOk_DropsRefreshToken(t) ==
  /\ tasks[t].pc = "r_fetch"
  /\ \E shape \in ResponseShapes :
       tasks' = [tasks EXCEPT ![t] =
         [@ EXCEPT !.pc = "r_store",
                   !.tok = <<addIssuedAt(ProviderTokens(tokenSeq + 1, shape))>>]]
  /\ tokenSeq' = tokenSeq + 1
  /\ inFlight' = inFlight - 1
  /\ UNCHANGED <<backendVars, authVars, calls, store, refreshPromise, now, refreshRequests>>

\* the token endpoint answers the refresh request of task t with a token
RefreshResponseOk(t) ==
  /\ tasks[t].pc = "r_fetch"
  /\ \E shape \in ResponseShapes :
       LET newTokens == ProviderTokens(tokenSeq + 1, shape)
           stamped == addIssuedAt(newTokens)
           tokenData == IF stamped.refresh_token = 0
                          THEN [stamped EXCEPT !.refresh_token =
                                  tasks[t].tok[1].refresh_token]
                          ELSE stamped
       IN tasks' = [tasks EXCEPT ![t] = [@ EXCEPT !.pc = "r_store",
                                                  !.tok = <<tokenData>>]]
  /\ tokenSeq' = tokenSeq + 1
  /\ inFlight' = inFlight - 1
  /\ UNCHANGED <<backendVars, authVars, calls, store, refreshPromise, now, refreshRequests>>

\* the token endpoint rejects the refresh request of task t, or the fetch fails
RefreshResponseError(t) ==
  /\ tasks[t].pc = "r_fetch"
  /\ tasks' = [tasks EXCEPT ![t] = At(@, "r_del")]
  /\ inFlight' = inFlight - 1
  /\ UNCHANGED <<backendVars, authVars, calls, store, refreshPromise, now, tokenSeq, refreshRequests>>

\* How a call that awaits the refresh promise goes on when it resolves with
\* tokenData: getValidAccessToken returns the access token, forceTokenRefresh
\* returns true.
AfterRefreshOk(task, tokenData) ==
  IF task.op = "gvat" THEN Done(task, tokenData.access_token)
  ELSE Done(task, 1)

AfterRefreshError_ReturnsStale(task) ==
  IF task.op = "ftr" THEN Done(task, 0)
  ELSE Done(task, task.tok[1].access_token)

\* ... and when it rejects: getValidAccessToken deletes the tokens in its
\* catch, forceTokenRefresh returns false.
AfterRefreshError(task) ==
  IF task.op = "ftr" THEN Done(task, 0)
  ELSE At(task, "g_del")

\* _performTokenRefresh of task t returns after await storeTokens: the
\* finally of refreshTokens clears the slot, then the joined calls resume;
\* a getAuthStatus among them sets the state.
RefreshSettleOk(t) ==
  /\ tasks[t].pc = "r_stored"
  /\ refreshPromise' = 0
  /\ tasks' = [u \in Tasks |->
       IF u = t \/ tasks[u].pc = "join"
         THEN AfterRefreshOk(tasks[u], tasks[t].tok[1])
         ELSE tasks[u]]
  /\ authState' =
       IF \E u \in Tasks : (u = t \/ tasks[u].pc = "join") /\ tasks[u].op = "status"
         THEN "authenticated" ELSE authState
  /\ UNCHANGED <<backendVars, calls, store, now, tokenSeq, refreshRequests, inFlight, pkce,
                 randomSeq, opened, loginWindow, authErrors, lastAuthError,
                 pendingFileToOpen>>

RefreshSettleError_KeepsSlot(t) ==
  /\ tasks[t].pc = "r_deleted"
  /\ tasks' = [u \in Tasks |->
       IF u = t \/ tasks[u].pc = "join"
         THEN AfterRefreshError(tasks[u])
         ELSE tasks[u]]
  /\ UNCHANGED <<backendVars, authVars, calls, tmVars>>

\* _performTokenRefresh of task t rethrows after await deleteTokens
RefreshSettleError(t) ==
  /\ tasks[t].pc = "r_deleted"
  /\ refreshPromise' = 0
  /\ tasks' = [u \in Tasks |->
       IF u = t \/ tasks[u].pc = "join"
         THEN AfterRefreshError(tasks[u])
         ELSE tasks[u]]
  /\ UNCHANGED <<backendVars, authVars, calls, store, now, tokenSeq, refreshRequests, inFlight>>

\* getValidAccessToken returns null after await deleteTokens
GetValidAccessTokenDeleted(t) ==
  /\ tasks[t].pc = "g_deleted"
  /\ ReturnFromGvat(t, 0)
  /\ UNCHANGED <<backendVars, calls, tmVars>>

\* time passes
Tick ==
  /\ now < StartNow + MaxTicks
  /\ now' = now + 1
  /\ UNCHANGED <<backendVars, authVars, tasks, calls, store, refreshPromise, tokenSeq, refreshRequests, inFlight>>

\* --------------------------------------------------------------- OAuthPKCE
NoPKCE == [codeVerifier |-> 0, codeChallenge |-> 0, state |-> 0]

\* OAuthPKCE.sha256: the challenge of a verifier, a different one for each
sha256(plain) == 2 * plain + 1

\* OAuthPKCE.generatePKCE: generateRandomString draws a value never drawn
\* before, first for the verifier and then for the state
generatePKCE ==
  [codeVerifier |-> randomSeq + 1,
   codeChallenge |-> sha256(randomSeq + 1),
   state |-> randomSeq + 2]

\* The session OAuthPKCE holds after buildAuthUrl: a new one only if there
\* is no challenge.
SessionAfterBuildAuthUrl ==
  IF pkce.codeChallenge = 0 THEN generatePKCE ELSE pkce

\* OAuthPKCE.buildAuthUrl: the parameters of the URL that vary
buildAuthUrl ==
  [state |-> SessionAfterBuildAuthUrl.state,
   code_challenge |-> SessionAfterBuildAuthUrl.codeChallenge]

validateState_AlwaysValid(receivedState) == TRUE

\* OAuthPKCE.validateState
validateState(receivedState) == pkce.state = receivedState

\* The state values a callback may carry: none, one the application never
\* issued, and those of the URLs the browser has opened.
CallbackStates == {0, 99} \cup {opened[i].state : i \in 1..Len(opened)}

\* The callback URLs: one that does not parse, and the parsable ones by what
\* OAuthPKCE.parseCallback returns for them.
CallbackUrls ==
  { [parsable |-> FALSE, error |-> 0, code |-> 0, state |-> 0] } \cup
  [parsable : {TRUE}, error : {0, 1, 2}, code : {0, 1}, state : CallbackStates]

\* ---------------------------------------------------- AuthenticationManager
\* AuthenticationManager.notifyAuthError
notifyAuthError(errorMessage) ==
  IF loginWindow
    THEN /\ authErrors' = authErrors + 1
         /\ lastAuthError' = errorMessage
    ELSE UNCHANGED <<authErrors, lastAuthError>>

\* startLogin after its guard: set the state, build the URL, call
\* shell.openExternal
OpenBrowser(task) == [task EXCEPT !.pc = "l_open", !.arg = buildAuthUrl]

\* AuthenticationManager.startLogin is called
StartLogin(t) ==
  /\ Call(t)
  /\ IF authState = "authenticating"
       THEN /\ tasks' = Begin(t, Done([IdleTask EXCEPT !.op = "login"], "in_progress"))
            /\ UNCHANGED <<tmVars, authVars>>
       ELSE /\ authState' = "authenticating"
            /\ pkce' = SessionAfterBuildAuthUrl
            /\ randomSeq' = IF pkce.codeChallenge = 0 THEN randomSeq + 2 ELSE randomSeq
            /\ tasks' = Begin(t, OpenBrowser([IdleTask EXCEPT !.op = "login"]))
            /\ UNCHANGED <<tmVars, opened, loginWindow, authErrors, lastAuthError,
                           pendingFileToOpen>>

\* What a call returns when its startLogin returns success: the click handler
\* of the menu item 'Update Something' then sends action:update-something to
\* its window.
LoginSucceeded(task) == IF task.op = "menu" THEN "sent" ELSE "ok"

\* shell.openExternal resolves: the browser shows the URL, startLogin returns
OpenExternalOk(t) ==
  /\ tasks[t].pc = "l_open"
  /\ opened' = Append(opened, tasks[t].arg)
  /\ tasks' = [tasks EXCEPT ![t] = Done(@, LoginSucceeded(@))]
  /\ UNCHANGED <<backendVars, calls, tmVars, authState, pkce, randomSeq, loginWindow,
                 authErrors, lastAuthError, pendingFileToOpen>>

\* shell.openExternal rejects: the catch of startLogin
OpenExternalError(t) ==
  /\ tasks[t].pc = "l_open"
  /\ authState' = "unauthenticated"
  /\ tasks' = [tasks EXCEPT ![t] = Done(@, "error")]
  /\ UNCHANGED <<backendVars, calls, tmVars, pkce, randomSeq, opened, loginWindow,
                 authErrors, lastAuthError, pendingFileToOpen>>

\* AuthenticationManager.startForcedLogin is called
StartForcedLogin(t) ==
  /\ Call(t)
  /\ tasks' = Begin(t, [IdleTask EXCEPT !.op = "forced", !.pc = "fl_del"])
  /\ UNCHANGED <<tmVars, authVars>>

\* startForcedLogin after await clearTokens(): the state is set to
\* unauthenticated and startLogin runs up to its await
ForcedLoginCleared(t) ==
  /\ tasks[t].pc = "fl_deleted"
  /\ authState' = "authenticating"
  /\ pkce' = SessionAfterBuildAuthUrl
  /\ randomSeq' = IF pkce.codeChallenge = 0 THEN randomSeq + 2 ELSE randomSeq
  /\ tasks' = [tasks EXCEPT ![t] = OpenBrowser(@)]
  /\ UNCHANGED <<backendVars, calls, tmVars, opened, loginWindow, authErrors, lastAuthError,
                 pendingFileToOpen>>

\* the menu item 'Update Something' of a main window is clicked: its handler
\* calls startForcedLogin
MenuUpdateSomething(t) ==
  /\ Call(t)
  /\ tasks' = Begin(t, [IdleTask EXCEPT !.op = "menu", !.pc = "fl_del"])
  /\ UNCHANGED <<tmVars, authVars>>

CallbackAccepted_Always == TRUE

\* handleOAuthCallback goes on only in the authenticating state
CallbackAccepted == authState = "authenticating"

\* What handleOAuthCallback throws before it sends the exchange request, ""
\* if nothing.
NoError == <<"", 0>>

\* What handleOAuthCallback throws before it sends the exchange request,
\* NoError if nothing: the message and the provider's error code in it.
CallbackError_SkipProviderError(url) ==
  IF ~url.parsable THEN <<"Invalid callback URL", 0>>
  ELSE IF url.code = 0 THEN <<"No authorization code received", 0>>
  ELSE IF ~validateState(url.state) THEN <<"Invalid state parameter", 0>>
  ELSE IF pkce.codeVerifier = 0 THEN <<"Code verifier not found", 0>>
  ELSE NoError

CallbackError_NoVerifierCheck(url) ==
  IF ~url.parsable THEN <<"Invalid callback URL", 0>>
  ELSE IF url.error # 0 THEN <<"OAuth error", url.error>>
  ELSE IF url.code = 0 THEN <<"No authorization code received", 0>>
  ELSE IF ~validateState(url.state) THEN <<"Invalid state parameter", 0>>
  ELSE NoError

CallbackError(url) ==
  IF ~url.parsable THEN <<"Invalid callback URL", 0>>
  ELSE IF url.error # 0 THEN <<"OAuth error", url.error>>
  ELSE IF url.code = 0 THEN <<"No authorization code received", 0>>
  ELSE IF ~validateState(url.state) THEN <<"Invalid state parameter", 0>>
  ELSE IF pkce.codeVerifier = 0 THEN <<"Code verifier not found", 0>>
  ELSE NoError

\* AuthenticationManager.handleOAuthCallback is called with url
HandleOAuthCallback(t, url) ==
  /\ Call(t)
  /\ LET call == [IdleTask EXCEPT !.op = "callback", !.arg = url] IN
     IF ~CallbackAccepted
       THEN /\ tasks' = Begin(t, Done(call, "ignored"))
            /\ UNCHANGED <<tmVars, authVars>>
     ELSE IF CallbackError(url) # NoError
       THEN /\ authState' = "unauthenticated"
            /\ notifyAuthError(CallbackError(url))
            /\ tasks' = Begin(t, Done(call, "error"))
            /\ UNCHANGED <<tmVars, pkce, randomSeq, opened, loginWindow,
                           pendingFileToOpen>>
     ELSE /\ tasks' = Begin(t, [call EXCEPT !.pc = "x_fetch"])
          /\ UNCHANGED <<tmVars, authVars>>

\* the token endpoint answers the code exchange of task t with a token:
\* exchangeCodeForTokens clears the session, storeTokens stamps the record
ExchangeResponseOk(t) ==
  /\ tasks[t].pc = "x_fetch"
  /\ \E shape \in ResponseShapes :
       tasks' = [tasks EXCEPT ![t] =
         [@ EXCEPT !.pc = "x_store",
                   !.tok = <<addIssuedAt(ProviderTokens(tokenSeq + 1, shape))>>]]
  /\ tokenSeq' = tokenSeq + 1
  /\ pkce' = NoPKCE
  /\ UNCHANGED <<backendVars, calls, store, refreshPromise, now, refreshRequests, inFlight,
                 authState, randomSeq, opened, loginWindow, authErrors,
                 lastAuthError, pendingFileToOpen>>

\* the token endpoint rejects the code exchange of task t, or the fetch fails
ExchangeResponseError(t) ==
  /\ tasks[t].pc = "x_fetch"
  /\ authState' = "unauthenticated"
  /\ notifyAuthError(<<"Token exchange error", 0>>)
  /\ tasks' = [tasks EXCEPT ![t] = Done(@, "error")]
  /\ UNCHANGED <<backendVars, calls, tmVars, pkce, randomSeq, opened, loginWindow,
                 pendingFileToOpen>>

KeytarWriteError_Swallowed(t) ==
  /\ tasks[t].pc \in {"r_store", "x_store"}
  /\ tasks' = [tasks EXCEPT ![t] = At(@, AfterKeytar(tasks[t].pc))]
  /\ UNCHANGED <<backendVars, calls, tmVars, authVars>>

\* keytar.setPassword rejects: TokenStorage.storeTokens throws.  The catch
\* of _performTokenRefresh goes on to delete the tokens; the catch of
\* handleOAuthCallback sets the state and notifies the login window.
KeytarWriteError(t) ==
  /\ tasks[t].pc \in {"r_store", "x_store"}
  /\ IF tasks[t].pc = "r_store"
       THEN /\ tasks' = [tasks EXCEPT ![t] = At(@, "r_del")]
            /\ UNCHANGED authVars
       ELSE /\ authState' = "unauthenticated"
            /\ notifyAuthError(<<"Failed to store tokens", 0>>)
            /\ tasks' = [tasks EXCEPT ![t] = Done(@, "error")]
            /\ UNCHANGED <<pkce, randomSeq, opened, loginWindow, pendingFileToOpen>>
  /\ UNCHANGED <<backendVars, calls, tmVars>>

CallbackStored_KeepsPending(t) ==
  /\ tasks[t].pc = "x_stored"
  /\ authState' = "authenticated"
  /\ pendingFileToOpen' = pendingFileToOpen
  /\ loginWindow' = FALSE
  /\ tasks' = [tasks EXCEPT ![t] = Done([@ EXCEPT !.file = pendingFileToOpen], "ok")]
  /\ UNCHANGED <<backendVars, calls, tmVars, pkce, randomSeq, opened, authErrors, lastAuthError>>

\* handleOAuthCallback after await storeTokens: the state is set, the main
\* window is opened, with the pending file if there is one, and the login
\* window is closed
CallbackStored(t) ==
  /\ tasks[t].pc = "x_stored"
  /\ authState' = "authenticated"
  /\ pendingFileToOpen' = 0
  /\ loginWindow' = FALSE
  /\ tasks' = [tasks EXCEPT ![t] = Done([@ EXCEPT !.file = pendingFileToOpen], "ok")]
  /\ UNCHANGED <<backendVars, calls, tmVars, pkce, randomSeq, opened, authErrors, lastAuthError>>

\* AuthenticationManager.logout is called
Logout(t) ==
  /\ Call(t)
  /\ tasks' = Begin(t, [IdleTask EXCEPT !.op = "logout", !.pc = "o_del"])
  /\ UNCHANGED <<tmVars, authVars>>

LogoutCleared_KeepsState(t) ==
  /\ tasks[t].pc = "o_deleted"
  /\ loginWindow' = TRUE
  /\ tasks' = [tasks EXCEPT ![t] = Done(@, "ok")]
  /\ UNCHANGED <<backendVars, calls, tmVars, authState, pkce, randomSeq, opened, authErrors,
                 lastAuthError, pendingFileToOpen>>

\* logout after await clearTokens()
LogoutCleared(t) ==
  /\ tasks[t].pc = "o_deleted"
  /\ authState' = "unauthenticated"
  /\ loginWindow' = TRUE
  /\ tasks' = [tasks EXCEPT ![t] = Done(@, "ok")]
  /\ UNCHANGED <<backendVars, calls, tmVars, pkce, randomSeq, opened, authErrors,
                 lastAuthError, pendingFileToOpen>>

\* AuthenticationManager.getAuthStatus is called: isAuthenticated() calls
\* getValidAccessToken
StartGetAuthStatus(t) ==
  /\ Call(t)
  /\ tasks' = Begin(t, [IdleTask EXCEPT !.op = "status", !.pc = "g_read"])
  /\ UNCHANGED <<tmVars, authVars>>

\* AuthenticationManager.handleFileOpen is called with a file
StartHandleFileOpen(t, filePath) ==
  /\ Call(t)
  /\ tasks' = Begin(t, [IdleTask EXCEPT !.op = "file", !.pc = "g_read",
                                        !.arg = filePath])
  /\ UNCHANGED <<tmVars, authVars>>

\* the user closes the login window
CloseLoginWindow ==
  /\ loginWindow
  /\ loginWindow' = FALSE
  /\ UNCHANGED <<backendVars, tasks, calls, tmVars, authState, pkce, randomSeq, opened,
                 authErrors, lastAuthError, pendingFileToOpen>>

\* -------------------------------------------------------- backend managers
\* BackendManager in its two versions (the sequential one and the parallel
\* one of backend-manager.js), AdvancedBackendManager, SimpleBackendManager.
\* SimpleBackendManager starts TestAppweb first and Backend with its port:
\* they are backend2 and backend1 here, as in the sequential BackendManager.
Variants == {"sequential", "parallel", "advanced", "simple"}
Backends == {"backend1", "backend2"}
IsSimple == variant = "simple"

\* the timeout of the setTimeout in startBackend / startProcess, in seconds
WatchdogSeconds == 10
\* the clock advances by that much, up to twice that
ClockStep == WatchdogSeconds
MaxClock == 2 * WatchdogSeconds
\* outputs with a port announcement that one process writes
MaxMatches == 2
\* calls of shutdown() / cleanup() from outside
MaxShutdowns == 2

\* the ports the operating system assigns
Ports == {5001, 5002}
\* the exit code of a process that was ended by a signal: null
NullCode == -1

\* One 'data' event of a child's stdout: the lines of output, each by the
\* port it announces as being listened on, 0 if it announces none.  Outputs
\* without any announcement change nothing and are left out.
Outputs ==
  { <<a>> : a \in Ports } \cup
  { <<a, b>> : a \in Ports \cup {0}, b \in Ports } \cup
  { <<a, 0>> : a \in Ports }

\* output.match(/Now listening on:\s*http:\/\/localhost:(\d+)/i), resp.
\* output.match(/listening on.*:(\d+)/i), and parseInt(match[1]): the port of
\* the first announcement in the output
match(output) ==
  IF output[1] # 0 THEN output[1]
  ELSE IF Len(output) > 1 THEN output[2] ELSE 0

\* A child process.  state: none (not spawned), running, exited, unspawned
\* (spawn has failed); signals: the signals sent to it while it ran;
\* portFound: the variable of that name in startBackend; env: the port of the
\* other backend in its environment, 0 if none; timer: the watchdog is off,
\* armed or fired; deadline: when it is due; seen: the announcements of it
\* that were handled.
NoProc == [state |-> "none", signals |-> 0, portFound |-> FALSE, env |-> 0,
           timer |-> "off", deadline |-> 0, seen |-> 0]

\* The promise startBackend / startProcess returns.
NoStart == [st |-> "none", port |-> 0, error |-> ""]
Pending == [st |-> "pending", port |-> 0, error |-> ""]
Success(port) == [st |-> "ok", port |-> port, error |-> ""]
Failure(msg) == [st |-> "failed", port |-> 0, error |-> msg]

NoPorts == [n \in Backends |-> 0]

\* The state of the manager and its children, as one value.
BM == [batch |-> batch, starts |-> starts, procs |-> procs,
       processes |-> processes, ports |-> ports,
       serviceRegistry |-> serviceRegistry, notify |-> notify]

\* The manager and its children become s.
SetBM(s) ==
  /\ batch' = s.batch
  /\ starts' = s.starts
  /\ procs' = s.procs
  /\ processes' = s.processes
  /\ ports' = s.ports
  /\ serviceRegistry' = s.serviceRegistry
  /\ notify' = s.notify

\* resolve(...) / reject(...) of the promise of backend n: a promise settles
\* once
resolve(s, n, result) ==
  IF s.starts[n].st = "pending" THEN [s EXCEPT !.starts[n] = result] ELSE s

\* the names of the processes in the registry
Registered(s) == {s.processes[i].name : i \in 1..Len(s.processes)}

\* process.kill() on each of names: a process that runs is sent the signal
KillAll(s, names) ==
  [s EXCEPT !.procs = [n \in Backends |->
     IF n \in names /\ s.procs[n].state = "running"
       THEN [s.procs[n] EXCEPT !.signals = @ + 1]
       ELSE s.procs[n]]]

\* BackendManager.shutdown, AdvancedBackendManager.shutdown
shutdown(s) ==
  [KillAll(s, Registered(s)) EXCEPT !.processes = <<>>, !.ports = NoPorts,
                                    !.serviceRegistry = {}]

\* SimpleBackendManager.cleanup
cleanup(s) == KillAll(s, Registered(s))

\* the message of the 'error' event of a spawn that fails
SpawnError(n) == IF exe[n] = "missing" THEN "spawn ENOENT" ELSE "spawn EACCES"

\* The child process of backend n right after spawn(), with the watchdog set.
Spawned(n, env) ==
  [NoProc EXCEPT !.state = IF exe[n] = "ok" THEN "running" ELSE "unspawned",
                 !.env = env, !.timer = "armed",
                 !.deadline = bclock + WatchdogSeconds]

startBackend_NoExistsCheck(s, n, env) ==
  [s EXCEPT !.procs[n] = Spawned(n, env),
            !.starts[n] = IF exe[n] = "ok" THEN Pending
                          ELSE Failure(SpawnError(n))]

\* startBackend(name, executablePath, env) / startProcess(name, exePath, env)
\* up to the promise it returns.  A spawn that fails emits 'error' in the next
\* tick, before any other event: the handler has run when this is over.
startBackend(s, n, env) ==
  IF ~IsSimple /\ exe[n] = "missing"
    THEN [s EXCEPT !.starts[n] = Failure("Backend executable not found")]
    ELSE [s EXCEPT !.procs[n] = Spawned(n, env),
                   !.starts[n] = IF exe[n] = "ok" THEN Pending
                                 ELSE Failure(SpawnError(n))]

\* the catch of startBackends
Fail(s) ==
  [(IF IsSimple THEN cleanup(s) ELSE shutdown(s)) EXCEPT !.batch = "failed"]

\* the outcomes of a discovery request: the response has status 200 or
\* another status, or the request fails with a connection error
NotifyOutcomes == {"200", "500", "error"}

\* notifyBackendsOfPorts: a request is sent to every service of the registry,
\* which holds both backends, and nothing is awaited
notifyBackendsOfPorts == [n \in Backends |-> "sent"]

\* startBackends returns the ports
Succeed(s) ==
  IF IsSimple
    THEN [s EXCEPT !.ports["backend1"] = s.starts["backend1"].port,
                   !.batch = "ok"]
    ELSE [s EXCEPT !.ports = [n \in Backends |-> s.starts[n].port],
                   !.serviceRegistry = IF variant = "advanced" THEN Backends
                                       ELSE {},
                   !.notify = IF variant = "advanced"
                                THEN notifyBackendsOfPorts ELSE @,
                   !.batch = "ok"]

\* startBackends (sequential, simple) after await of the second start
AfterBackend1(s) ==
  CASE s.starts["backend1"].st = "pending" -> s
    [] s.starts["backend1"].st = "failed" -> Fail(s)
    [] s.starts["backend1"].st = "ok" -> Succeed(s)

AfterBackend2_NoPort(s) ==
  CASE s.starts["backend2"].st = "pending" -> s
    [] OTHER -> AfterBackend1(startBackend([s EXCEPT !.batch = "wait1"],
                                           "backend1", 0))

\* startBackends (sequential, simple) after await of the first start:
\* backend1 is started with the port of backend2
AfterBackend2(s) ==
  CASE s.starts["backend2"].st = "pending" -> s
    [] s.starts["backend2"].st = "failed" -> Fail(s)
    [] s.starts["backend2"].st = "ok" ->
         LET port == s.starts["backend2"].port
             s1 == [s EXCEPT !.batch = "wait1",
                             !.ports["backend2"] = IF IsSimple THEN port ELSE @]
         IN AfterBackend1(startBackend(s1, "backend1", port))

\* startBackends (parallel, advanced) after await Promise.all
AfterAll(s) ==
  IF \E n \in Backends : s.starts[n].st = "pending" THEN s
  ELSE IF \E n \in Backends : s.starts[n].st = "failed" THEN Fail(s)
  ELSE Succeed(s)

\* startBackends goes on, in the same turn, when a promise it awaits settles
Continue(s) ==
  CASE s.batch = "wait2" -> AfterBackend2(s)
    [] s.batch = "wait1" -> AfterBackend1(s)
    [] s.batch = "waitAll" -> AfterAll(s)
    [] OTHER -> s

\* startBackends is called
StartBackends ==
  /\ app = "running"
  /\ batch = "idle"
  /\ SetBM(Continue(
       IF variant \in {"sequential", "simple"}
         THEN startBackend([BM EXCEPT !.batch = "wait2"], "backend2", 0)
         ELSE startBackend(startBackend([BM EXCEPT !.batch = "waitAll"],
                                        "backend1", 0), "backend2", 0)))
  /\ UNCHANGED <<tasks, calls, tmVars, authVars, variant, exe, bclock, shutdowns, app,
                 prevented>>

OnStdout_NoLatch(s, n, output) ==
  LET port == match(output) IN
  resolve([s EXCEPT !.procs[n].portFound = TRUE,
                    !.processes = Append(@, [name |-> n, port |-> port])],
          n, Success(port))

\* The 'data' handler of stdout of backend n, for an output with an
\* announcement.
OnStdout(s, n, output) ==
  LET port == match(output) IN
  IF IsSimple
    THEN resolve([s EXCEPT !.processes =
                    IF n \in Registered(s) THEN @
                    ELSE Append(@, [name |-> n, port |-> 0])],
                 n, Success(port))
    ELSE IF ~s.procs[n].portFound
      THEN resolve([s EXCEPT !.procs[n].portFound = TRUE,
                             !.processes = Append(@, [name |-> n, port |-> port])],
                   n, Success(port))
      ELSE s

\* the child of backend n writes output with an announcement.  A process
\* that was sent a signal runs, and may write, until it exits.  Handlers run
\* until the application has quit.
StdoutData(n, output) ==
  /\ app # "quit"
  /\ procs[n].state = "running"
  /\ procs[n].seen < MaxMatches
  /\ SetBM(Continue(OnStdout([BM EXCEPT !.procs[n].seen = @ + 1], n, output)))
  /\ UNCHANGED <<tasks, calls, tmVars, authVars, variant, exe, bclock, shutdowns, app,
                 prevented>>

OnExit_Ignored(s, n, code) == s

\* The 'exit' handler of backend n.
OnExit(s, n, code) ==
  IF IsSimple
    THEN IF code # 0 THEN resolve(s, n, Failure("failed")) ELSE s
    ELSE IF ~s.procs[n].portFound /\ code # 0
      THEN resolve(s, n, Failure("Process exited with code"))
      ELSE s

\* the child of backend n exits: by itself with code 0 or 1, after a signal
\* with code null or, if it handles the signal, with code 0
ProcessExit(n, code) ==
  /\ app # "quit"
  /\ procs[n].state = "running"
  /\ code \in (IF procs[n].signals > 0 THEN {NullCode, 0} ELSE {0, 1})
  /\ SetBM(Continue(OnExit([BM EXCEPT !.procs[n].state = "exited"], n, code)))
  /\ UNCHANGED <<tasks, calls, tmVars, authVars, variant, exe, bclock, shutdowns, app,
                 prevented>>

OnNotifyResponse_Fatal(s, n, outcome) ==
  IF outcome = "200" THEN [s EXCEPT !.notify[n] = outcome]
  ELSE [shutdown(s) EXCEPT !.notify[n] = outcome, !.batch = "failed"]

\* The response callback and the 'error' handler of the discovery request to
\* backend n: the outcome is logged.
OnNotifyResponse(s, n, outcome) == [s EXCEPT !.notify[n] = outcome]

\* the discovery request to backend n is answered or fails
NotifyResponse(n, outcome) ==
  /\ app # "quit"
  /\ notify[n] = "sent"
  /\ SetBM(OnNotifyResponse(BM, n, outcome))
  /\ UNCHANGED <<tasks, calls, tmVars, authVars, variant, exe, bclock, shutdowns,
                 app, prevented>>

OnTimeout_NoResolve(s, n) ==
  IF ~IsSimple /\ ~s.procs[n].portFound THEN KillAll(s, {n}) ELSE s

\* The callback of the setTimeout of backend n.
OnTimeout(s, n) ==
  IF IsSimple
    THEN resolve(s, n, Failure("timeout"))
    ELSE IF ~s.procs[n].portFound
      THEN resolve(KillAll(s, {n}), n, Failure("Timeout waiting for port assignment"))
      ELSE s

\* the watchdog of backend n fires
Watchdog(n) ==
  /\ app # "quit"
  /\ procs[n].timer = "armed"
  /\ bclock >= procs[n].deadline
  /\ SetBM(Continue(OnTimeout([BM EXCEPT !.procs[n].timer = "fired"], n)))
  /\ UNCHANGED <<tasks, calls, tmVars, authVars, variant, exe, bclock, shutdowns, app,
                 prevented>>

\* time passes, but not past a timer that is due
BackendTick ==
  /\ app # "quit"
  /\ batch # "idle"
  /\ bclock < MaxClock
  /\ \A n \in Backends : procs[n].timer = "armed" => bclock < procs[n].deadline
  /\ bclock' = bclock + ClockStep
  /\ UNCHANGED <<tasks, calls, tmVars, authVars, variant, exe, batch, starts,
                 procs, processes, ports, serviceRegistry, shutdowns, notify,
                 app, prevented>>

\* shutdown() is called by the quit handlers of main.js, which hold the
\* manager from before startBackends is called; cleanup() by the owner of a
\* SimpleBackendManager, which holds it once startBackends has returned
CallShutdown ==
  /\ shutdowns < MaxShutdowns
  /\ IF IsSimple THEN batch = "ok" ELSE batch # "idle"
  /\ shutdowns' = shutdowns + 1
  /\ SetBM(IF IsSimple THEN cleanup(BM) ELSE shutdown(BM))
  /\ UNCHANGED <<tasks, calls, tmVars, authVars, variant, exe, bclock, app,
                 prevented>>

\* before-quit events whose default is prevented
MaxPrevented == 2

\* app.quit() emits 'before-quit'.  The handler of main.js, when
\* backendManager is set, which it is from the call of startBackends on,
\* prevents the quit and calls shutdown(); after the await it calls
\* app.quit().  When the event is not prevented the application quits.
BeforeQuit ==
  IF batch # "idle"
    THEN /\ prevented' = prevented + 1
         /\ shutdowns' = shutdowns + 1
         /\ app' = "quitting"
         /\ SetBM(shutdown(BM))
    ELSE /\ app' = "quit"
         /\ SetBM(BM)
         /\ UNCHANGED <<prevented, shutdowns>>

\* app.quit() is called while the application runs: by the menu, or by the
\* catch of whenReady
QuitRequest ==
  /\ app = "running"
  /\ BeforeQuit
  /\ UNCHANGED <<tasks, calls, tmVars, authVars, variant, exe, bclock>>

\* the app.quit() that follows shutdown() in the handlers of main.js
QuitAgain ==
  /\ app = "quitting"
  /\ prevented < MaxPrevented
  /\ BeforeQuit
  /\ UNCHANGED <<tasks, calls, tmVars, authVars, variant, exe, bclock>>

\* The 'window-all-closed' handler of main.js, not on darwin: shutdown(),
\* then app.quit(); app.quit() at once when there is no manager.
WindowAllClosed ==
  /\ app = "running"
  /\ IF batch # "idle"
       THEN /\ app' = "quitting"
            /\ shutdowns' = shutdowns + 1
            /\ SetBM(shutdown(BM))
            /\ UNCHANGED prevented
       ELSE BeforeQuit
  /\ UNCHANGED <<tasks, calls, tmVars, authVars, variant, exe, bclock>>

\* The manager after its constructor.
BackendsConstructed ==
  /\ batch = "idle"
  /\ starts = [n \in Backends |-> NoStart]
  /\ procs = [n \in Backends |-> NoProc]
  /\ processes = <<>>
  /\ ports = NoPorts
  /\ serviceRegistry = {}
  /\ bclock = 0
  /\ shutdowns = 0
  /\ notify = [n \in Backends |-> "none"]
  /\ app = "running"
  /\ prevented = 0

\* The backends are left out of the specifications of the authentication:
\* there the manager stays as it was constructed.
BackendsLeftOut ==
  /\ variant = "parallel"
  /\ exe = [n \in Backends |-> "ok"]
  /\ BackendsConstructed

\* ------------------------------------------------- the token manager alone
GvatStep(t) ==
  \/ KeytarRead(t)
  \/ KeytarWrite(t)
  \/ KeytarDelete(t)
  \/ GetValidAccessTokenRead(t)
  \/ RefreshResponseOk(t)
  \/ RefreshResponseError(t)
  \/ RefreshSettleOk(t)
  \/ RefreshSettleError(t)
  \/ GetValidAccessTokenDeleted(t)

TMStep(t) ==
  \/ GvatStep(t)
  \/ ForceTokenRefreshRead(t)

InitTM ==
  /\ tasks = [t \in Tasks |-> IdleTask]
  /\ calls = 0
  /\ store \in InitialStores
  /\ refreshPromise = 0
  /\ now = StartNow
  /\ tokenSeq = 0
  /\ refreshRequests = 0
  /\ inFlight = 0
  /\ authState = "unauthenticated"
  /\ pkce = NoPKCE
  /\ randomSeq = 0
  /\ opened = <<>>
  /\ loginWindow = FALSE
  /\ authErrors = 0
  /\ lastAuthError = <<"", 0>>
  /\ pendingFileToOpen = 0
  /\ BackendsLeftOut

NextTM ==
  \/ \E t \in Tasks : StartGetValidAccessToken(t)
  \/ \E t \in Tasks : StartForceTokenRefresh(t)
  \/ \E t \in Tasks : TMStep(t)
  \/ Tick

SpecTM == InitTM /\ [][NextTM]_vars

\* ------------------------------- the token manager while the clock stands
\* The calls overlap in less than a tick.
NextRefresh ==
  \/ \E t \in Tasks : StartGetValidAccessToken(t)
  \/ \E t \in Tasks : StartForceTokenRefresh(t)
  \/ \E t \in Tasks : TMStep(t)

SpecRefresh == InitTM /\ [][NextRefresh]_vars

\* ------------------------- the token manager on a credential store that fails
\* The records the store starts with are valid or expired as they are: the
\* clock stands still here.
NextStorage ==
  \/ \E t \in Tasks : StartGetValidAccessToken(t)
  \/ \E t \in Tasks : GvatStep(t)
  \/ \E t \in Tasks : KeytarReadError(t)
  \/ \E t \in Tasks : KeytarWriteError(t)
  \/ \E t \in Tasks : KeytarDeleteError(t)
  \/ OtherInstanceDeletes

SpecStorage == InitTM /\ [][NextStorage]_vars

\* ------------------------------------------------ the authentication manager
\* The application starts on a fresh installation: the credential store is
\* empty, and every record it comes to hold was obtained by a login.
Init == InitTM /\ store = <<>>

Next ==
  \/ \E t \in Tasks : StartLogin(t)
  \/ \E t \in Tasks : StartForcedLogin(t)
  \/ \E t \in Tasks : \E url \in CallbackUrls : HandleOAuthCallback(t, url)
  \/ \E t \in Tasks : Logout(t)
  \/ \E t \in Tasks : StartGetAuthStatus(t)
  \/ \E t \in Tasks : StartHandleFileOpen(t, 1)
  \/ \E t \in Tasks : GvatStep(t)
  \/ \E t \in Tasks : OpenExternalOk(t)
  \/ \E t \in Tasks : OpenExternalError(t)
  \/ \E t \in Tasks : ForcedLoginCleared(t)
  \/ \E t \in Tasks : ExchangeResponseOk(t)
  \/ \E t \in Tasks : ExchangeResponseError(t)
  \/ \E t \in Tasks : CallbackStored(t)
  \/ \E t \in Tasks : LogoutCleared(t)
  \/ CloseLoginWindow
  \/ Tick

Spec == Init /\ [][Next]_vars

\* -------------------------- the application with a record left in the store
\* The credential store holds a record of an earlier run when the
\* application starts.
InitReturningUser == InitTM /\ store # <<>>

SpecReturningUser == InitReturningUser /\ [][Next]_vars

\* ------------------------------------ the menu of the main window at work
\* The application has started with a valid record in the store: initialize
\* has set the state to authenticated and the main window is open.  Nothing
\* here closes that window, so its menu can be used throughout.
InitMainWindow ==
  /\ tasks = [t \in Tasks |-> IdleTask]
  /\ calls = 0
  /\ store = <<Token(100, 100, 1, 2, 0)>>
  /\ refreshPromise = 0
  /\ now = StartNow
  /\ tokenSeq = 0
  /\ refreshRequests = 0
  /\ inFlight = 0
  /\ authState = "authenticated"
  /\ pkce = NoPKCE
  /\ randomSeq = 0
  /\ opened = <<>>
  /\ loginWindow = FALSE
  /\ authErrors = 0
  /\ lastAuthError = <<"", 0>>
  /\ pendingFileToOpen = 0
  /\ BackendsLeftOut

NextMainWindow ==
  \/ \E t \in Tasks : MenuUpdateSomething(t)
  \/ \E t \in Tasks : \E url \in CallbackUrls : HandleOAuthCallback(t, url)
  \/ \E t \in Tasks : KeytarWrite(t)
  \/ \E t \in Tasks : KeytarDelete(t)
  \/ \E t \in Tasks : ForcedLoginCleared(t)
  \/ \E t \in Tasks : OpenExternalOk(t)
  \/ \E t \in Tasks : OpenExternalError(t)
  \/ \E t \in Tasks : ExchangeResponseOk(t)
  \/ \E t \in Tasks : ExchangeResponseError(t)
  \/ \E t \in Tasks : CallbackStored(t)
  \/ Tick

SpecMainWindow == InitMainWindow /\ [][NextMainWindow]_vars

\* ------------------------------------------ logging in at the login window
\* The application has started with an empty store: initialize has left the
\* state unauthenticated and the login window is shown.  The user logs in
\* there, and the token is used afterwards.
InitLogin ==
  /\ tasks = [t \in Tasks |-> IdleTask]
  /\ calls = 0
  /\ store = <<>>
  /\ refreshPromise = 0
  /\ now = StartNow
  /\ tokenSeq = 0
  /\ refreshRequests = 0
  /\ inFlight = 0
  /\ authState = "unauthenticated"
  /\ pkce = NoPKCE
  /\ randomSeq = 0
  /\ opened = <<>>
  /\ loginWindow = TRUE
  /\ authErrors = 0
  /\ lastAuthError = <<"", 0>>
  /\ pendingFileToOpen = 0
  /\ BackendsLeftOut

NextLogin ==
  \/ \E t \in Tasks : StartLogin(t)
  \/ \E t \in Tasks : \E url \in CallbackUrls : HandleOAuthCallback(t, url)
  \/ \E t \in Tasks : StartGetValidAccessToken(t)
  \/ \E t \in Tasks : GvatStep(t)
  \/ \E t \in Tasks : OpenExternalOk(t)
  \/ \E t \in Tasks : OpenExternalError(t)
  \/ \E t \in Tasks : ExchangeResponseOk(t)
  \/ \E t \in Tasks : ExchangeResponseError(t)
  \/ \E t \in Tasks : CallbackStored(t)
  \/ Tick

SpecLogin == InitLogin /\ [][NextLogin]_vars

\* ------------------------------------- a login on a store that rejects writes
NextLoginStorage ==
  \/ NextLogin
  \/ \E t \in Tasks : KeytarWriteError(t)

SpecLoginStorage == InitLogin /\ [][NextLoginStorage]_vars

\* ------------------------------------------------- the backends at startup
\* whenReady of main.js starts the backends before anything else: there is no
\* AuthenticationManager yet.  Any of the managers may be the one in use, and
\* each executable may be there, be missing, or be there and fail to spawn.
InitBackends ==
  /\ tasks = [t \in Tasks |-> IdleTask]
  /\ calls = 0
  /\ store = <<>>
  /\ refreshPromise = 0
  /\ now = StartNow
  /\ tokenSeq = 0
  /\ refreshRequests = 0
  /\ inFlight = 0
  /\ authState = "unauthenticated"
  /\ pkce = NoPKCE
  /\ randomSeq = 0
  /\ opened = <<>>
  /\ loginWindow = FALSE
  /\ authErrors = 0
  /\ lastAuthError = <<"", 0>>
  /\ pendingFileToOpen = 0
  /\ variant \in Variants
  /\ exe \in [Backends -> {"ok", "missing", "unspawnable"}]
  /\ BackendsConstructed

NextBackends ==
  \/ StartBackends
  \/ \E n \in Backends : \E output \in Outputs : StdoutData(n, output)
  \/ \E n \in Backends : \E code \in {NullCode, 0, 1} : ProcessExit(n, code)
  \/ \E n \in Backends : Watchdog(n)
  \/ BackendTick
  \/ CallShutdown

SpecBackends == InitBackends /\ [][NextBackends]_vars

\* startBackends alone, nothing calling shutdown() meanwhile.  Timers fire:
\* time passes, and the callback of a setTimeout that is due runs.  Nothing
\* is assumed of the child processes.
NextStarts ==
  \/ StartBackends
  \/ \E n \in Backends : \E output \in Outputs : StdoutData(n, output)
  \/ \E n \in Backends : \E code \in {NullCode, 0, 1} : ProcessExit(n, code)
  \/ \E n \in Backends : Watchdog(n)
  \/ BackendTick

FairBackends ==
  /\ InitBackends /\ [][NextStarts]_vars
  /\ WF_vars(BackendTick)
  /\ \A n \in Backends : WF_vars(Watchdog(n))

\* ------------------------------------------------ the application quits
\* main.js uses the BackendManager of backend-manager.js.
InitQuit == InitBackends /\ variant \in {"sequential", "parallel"}

NextQuit ==
  \/ StartBackends
  \/ \E n \in Backends : \E output \in Outputs : StdoutData(n, output)
  \/ \E n \in Backends : \E code \in {NullCode, 0, 1} : ProcessExit(n, code)
  \/ \E n \in Backends : Watchdog(n)
  \/ BackendTick
  \/ QuitRequest
  \/ QuitAgain
  \/ WindowAllClosed

SpecQuit == InitQuit /\ [][NextQuit]_vars

\* ------------------------------------ AdvancedBackendManager with discovery
\* The manager in use is AdvancedBackendManager; the discovery requests it
\* sends are answered.
InitDiscovery == InitBackends /\ variant = "advanced"

NextDiscovery ==
  \/ StartBackends
  \/ \E n \in Backends : \E output \in Outputs : StdoutData(n, output)
  \/ \E n \in Backends : \E code \in {NullCode, 0, 1} : ProcessExit(n, code)
  \/ \E n \in Backends : Watchdog(n)
  \/ BackendTick
  \/ \E n \in Backends : \E outcome \in NotifyOutcomes : NotifyResponse(n, outcome)

SpecDiscovery == InitDiscovery /\ [][NextDiscovery]_vars

\* ------------- MaxTasks concurrent getValidAccessToken calls, record expired
\* The calls are made in the same turn of the event loop, while the store
\* holds an expired record with a refresh token.
InitConcurrentCalls ==
  /\ tasks = [t \in Tasks |-> [IdleTask EXCEPT !.op = "gvat", !.pc = "g_read"]]
  /\ calls = MaxTasks
  /\ store \in {s \in InitialStores :
                  s # <<>> /\ s[1].refresh_token # 0 /\ s[1].issued_at = 1}
  /\ refreshPromise = 0
  /\ now = StartNow
  /\ tokenSeq = 0
  /\ refreshRequests = 0
  /\ inFlight = 0
  /\ authState = "unauthenticated"
  /\ pkce = NoPKCE
  /\ randomSeq = 0
  /\ opened = <<>>
  /\ loginWindow = FALSE
  /\ authErrors = 0
  /\ lastAuthError = <<"", 0>>
  /\ pendingFileToOpen = 0
  /\ BackendsLeftOut

NextConcurrentCalls ==
  \/ \E t \in Tasks : GvatStep(t)
  \/ Tick

SpecConcurrentCalls == InitConcurrentCalls /\ [][NextConcurrentCalls]_vars

\* ------------------------------------------------ isTokenExpired on its own
\* The arguments isTokenExpired is called with: null, and records with and
\* without expires_in, issued_at and expires_at.
MaxExpiresIn == 2
ExpiryInputs ==
  { <<>> } \cup
  { <<Token(1, 0, ein, iat, eat)>> :
      ein \in 0..MaxExpiresIn, iat \in 0..3, eat \in {0, 3, 4} }

\* OAuthPKCE.isTokenExpired on any argument: null is expired
isTokenExpiredOrNull(tokens) ==
  IF tokens = <<>> THEN TRUE ELSE isTokenExpired(tokens[1])

\* oauth.isTokenExpired(tokens) is called, as the test of part_003 does: the
\* task keeps the argument and the result
CallIsTokenExpired(t, tokens) ==
  /\ Call(t)
  /\ tasks' = Begin(t, [IdleTask EXCEPT !.op = "expired", !.pc = "done",
                                        !.tok = tokens,
                                        !.res = isTokenExpiredOrNull(tokens)])
  /\ UNCHANGED <<tmVars, authVars>>

NextExpiry ==
  \/ \E t \in Tasks : \E tokens \in ExpiryInputs : CallIsTokenExpired(t, tokens)
  \/ Tick

SpecExpiry == Init /\ [][NextExpiry]_vars

\* ------------------------------------------------------------------ claims
AllReturned == \A t \in Tasks : tasks[t].pc = "done"

\* C1: the concurrent getValidAccessToken calls on an expired record with a
\* refresh token send exactly one refresh request, and all of them return the
\* same result.
C1_OneRefreshSameResult ==
  /\ refreshRequests <= 1
  /\ AllReturned =>
       /\ refreshRequests = 1
       /\ \A t, u \in Tasks : tasks[t].res = tasks[u].res

\* C2: at most one refresh request is in flight at any time.
C2_AtMostOneRefreshInFlight == inFlight <= 1

\* a second call found the refresh in flight and joined it
C2_Witness ==
  /\ inFlight = 1
  /\ \E t \in Tasks : tasks[t].pc = "join"

\* C3: handleOAuthCallback calls are processed one at a time: while one is
\* suspended in its code exchange or its token store, no other has passed its
\* validation.
C3_CallbacksOneAtATime ==
  Cardinality({t \in Tasks : tasks[t].pc \in {"x_fetch", "x_store", "x_stored"}}) <= 1

\* the code-exchange requests not yet answered
ExchangesInFlight == {t \in Tasks : tasks[t].pc = "x_fetch"}

\* C4: a callback delivered while the state is unauthenticated or
\* authenticated is discarded: state, PKCE session, stored record and pending
\* file are unchanged and no exchange request is sent.
C4_StrayCallbackDiscarded ==
  [][(calls' # calls /\ authState # "authenticating") =>
       \A t \in Tasks :
         (\E url \in CallbackUrls : HandleOAuthCallback(t, url)) =>
           /\ authState' = authState
           /\ pkce' = pkce
           /\ store' = store
           /\ pendingFileToOpen' = pendingFileToOpen
           /\ ExchangesInFlight' = ExchangesInFlight
           /\ tasks'[t].pc = "done"]_vars

\* a callback was discarded while a file was pending
C4_Witness ==
  /\ \E t \in Tasks : tasks[t].op = "callback" /\ tasks[t].pc = "done"
                      /\ tasks[t].res = "ignored"
  /\ pendingFileToOpen # 0

\* C5: a callback, delivered during a login, whose state parameter is missing
\* or is not the state of the current session sends no exchange request,
\* stores no token and leaves the state unauthenticated.
C5_BadStateAborts ==
  [][(calls' # calls /\ authState = "authenticating") =>
       \A t \in Tasks :
         \A url \in {u \in CallbackUrls : u.state = 0 \/ u.state # pkce.state} :
           HandleOAuthCallback(t, url) =>
             /\ ExchangesInFlight' = ExchangesInFlight
             /\ store' = store
             /\ tasks'[t].pc = "done"
             /\ authState' = "unauthenticated"]_vars

\* a callback with a code was rejected for its state
C5_Witness ==
  /\ \E t \in Tasks : tasks[t].op = "callback" /\ tasks[t].pc = "done"
                      /\ tasks[t].res = "error"
  /\ lastAuthError = <<"Invalid state parameter", 0>>
  /\ authState = "unauthenticated"

\* C6: validateState(received) is true exactly when a session is active and
\* received is its state; it is false for an absent state and when no session
\* is active.
C6_ValidateStateExact ==
  \A received \in CallbackStates :
    validateState(received) <=> (pkce.state # 0 /\ received = pkce.state)

\* C7: a callback whose code exchange succeeds clears the PKCE session and
\* stamps the record with the time at which it is handed to the store; the
\* store write stores that record; the handler ends in the authenticated
\* state, and, when no other call ran during it, with that record in the
\* store and no PKCE session.
C7_SuccessfulCallback ==
  [][\A t \in Tasks :
       /\ (tasks[t].pc = "x_fetch" /\ tasks'[t].pc = "x_store") =>
            /\ pkce' = NoPKCE
            /\ tasks'[t].tok[1].issued_at = NowSeconds
       /\ (tasks[t].pc = "x_store" /\ tasks'[t].pc = "x_stored") =>
            store' = tasks[t].tok
       /\ (tasks[t].pc = "x_stored" /\ tasks'[t].pc = "done") =>
            /\ authState' = "authenticated"
            /\ tasks'[t].res = "ok"
            /\ tasks[t].solo => (store' = tasks[t].tok /\ pkce' = NoPKCE)]_vars

\* a login has ended with a successful callback
C7_Witness ==
  /\ \E t \in Tasks : tasks[t].op = "callback" /\ tasks[t].pc = "done"
                      /\ tasks[t].res = "ok"
  /\ authState = "authenticated"
  /\ store # <<>>
  /\ pkce = NoPKCE
  /\ Len(opened) = 1

C9_NoSecondBrowser ==
  [][\A t \in Tasks :
       (tasks[t].pc # "l_open" /\ tasks'[t].pc = "l_open") =>
         authState # "authenticating"]_vars

\* C10: no two authorization URLs the browser has opened carry the same
\* state or the same challenge.
C10_FreshSessionPerLogin ==
  \A i, j \in 1..Len(opened) :
    i < j => /\ opened[i].state # opened[j].state
             /\ opened[i].code_challenge # opened[j].code_challenge

\* a forced login has opened the browser and waits for its callback
ForcedLoginWaiting ==
  /\ authState = "authenticating"
  /\ \E t \in Tasks : /\ tasks[t].op \in {"forced", "menu"}
                       /\ \/ tasks[t].pc = "l_open"
                          \/ tasks[t].pc = "done" /\ tasks[t].res \in {"ok", "sent"}

\* C11: startForcedLogin has deleted the stored tokens when it opens the
\* browser, and while it waits for its callback the state becomes
\* authenticated only by a callback that has stored its exchanged tokens.
C11_ForcedLoginIsFresh ==
  [][/\ \A t \in Tasks :
          (tasks[t].pc = "fl_del" /\ tasks'[t].pc = "fl_deleted") => store' = <<>>
     /\ (ForcedLoginWaiting /\ authState' = "authenticated") =>
          \E t \in Tasks : tasks[t].pc = "x_stored" /\ tasks'[t].pc = "done"]_vars

\* C12: the click handler of 'Update Something' sends action:update-something
\* only in the authenticated state.
C12_ActionAfterFreshLogin ==
  [][\A t \in Tasks :
       (/\ tasks[t].op = "menu" /\ tasks[t].pc = "l_open"
        /\ tasks'[t].pc = "done" /\ tasks'[t].res = "sent") =>
         authState' = "authenticated"]_vars

\* task t returns in this step from the position pc with the result res
Returns(t, pc, res) ==
  /\ tasks[t].pc = pc
  /\ tasks'[t].pc = "done"
  /\ tasks'[t].res = res

\* a call of handleOAuthCallback ends with an error in this step
CallbackFails ==
  \E t \in Tasks :
    /\ tasks'[t].op = "callback"
    /\ tasks[t].pc \in {"idle", "done", "x_fetch"}
    /\ tasks'[t] # tasks[t]
    /\ tasks'[t].pc = "done"
    /\ tasks'[t].res = "error"

\* C13: the state changes only from unauthenticated to authenticating, from
\* authenticating to authenticated by a successful callback, from
\* authenticated to unauthenticated by a logout, and from authenticating to
\* unauthenticated by a failed callback, a login that could not be started
\* or a logout.
C13_TransitionsOnly ==
  [][authState' # authState =>
       \/ authState = "unauthenticated" /\ authState' = "authenticating"
       \/ /\ authState = "authenticating" /\ authState' = "authenticated"
          /\ \E t \in Tasks : Returns(t, "x_stored", "ok")
       \/ /\ authState = "authenticated" /\ authState' = "unauthenticated"
          /\ \E t \in Tasks : Returns(t, "o_deleted", "ok")
       \/ /\ authState = "authenticating" /\ authState' = "unauthenticated"
          /\ \/ CallbackFails
             \/ \E t \in Tasks : Returns(t, "l_open", "error")
             \/ \E t \in Tasks : Returns(t, "o_deleted", "ok")]_vars

C15_StatusFromStore ==
  [][\A t \in Tasks :
       (tasks[t].op = "status" /\ tasks'[t].pc = "done" /\ tasks[t].pc # "done") =>
         LET obtained ==
               \/ /\ tasks[t].pc = "g_got"
                  /\ tasks[t].tok # <<>>
                  /\ ~isTokenExpired(tasks[t].tok[1])
               \/ /\ tasks[t].pc \in {"r_stored", "join"}
                  /\ \E u \in Tasks : tasks[u].pc = "r_stored"
         IN /\ tasks[t].pc \in {"g_got", "g_deleted", "r_stored", "join"}
            /\ tasks'[t].res = (IF obtained THEN 1 ELSE 0)
            /\ authState' = (IF obtained THEN "authenticated" ELSE "unauthenticated")]_vars

\* a getAuthStatus call has returned authenticated after a refresh
C15_Witness ==
  /\ \E t \in Tasks : tasks[t].op = "status" /\ tasks[t].pc = "done" /\ tasks[t].res = 1
  /\ authState = "authenticated"
  /\ refreshRequests >= 1

\* C16: a callback that completes opens the pending file and clears it; a
\* callback that is discarded or aborted opens no file and leaves the pending
\* file; and no call other than a completing callback and a handleFileOpen
\* opens a file.
C16_PendingFileOnce ==
  [][\A t \in Tasks :
       /\ (tasks[t].pc = "x_stored" /\ tasks'[t].pc = "done") =>
            /\ tasks'[t].file = pendingFileToOpen
            /\ pendingFileToOpen' = 0
       /\ (/\ tasks'[t].op = "callback" /\ tasks'[t] # tasks[t]
           /\ tasks'[t].pc = "done" /\ tasks'[t].res # "ok") =>
            /\ tasks'[t].file = 0
            /\ pendingFileToOpen' = pendingFileToOpen
       /\ (tasks'[t].file # 0 /\ tasks'[t] # tasks[t]) =>
            \/ tasks[t].op = "file" /\ tasks[t].pc # "done"
            \/ tasks[t].op = "callback" /\ tasks[t].pc = "x_stored"]_vars

\* a callback has completed and opened the file that was pending
C16_Witness ==
  /\ \E t \in Tasks : /\ tasks[t].op = "callback" /\ tasks[t].pc = "done"
                       /\ tasks[t].res = "ok" /\ tasks[t].file = 1
  /\ pendingFileToOpen = 0
  /\ BackendsLeftOut
  /\ authState = "authenticated"

\* C17: a handleFileOpen call that finds no valid token keeps the file as
\* pending and starts a login: the state becomes authenticating and
\* shell.openExternal is called; one that finds a valid token opens the file
\* and leaves the pending file alone.
C17_FileOpenStartsLogin ==
  [][\A t \in Tasks :
       (tasks[t].op = "file" /\ tasks[t].pc # "done" /\ tasks'[t].pc = "done") =>
         IF tasks'[t].res = 0
           THEN /\ pendingFileToOpen' = tasks[t].arg
                /\ tasks'[t].file = 0
                /\ authState' = "authenticating"
                /\ \E u \in Tasks : tasks'[u].pc = "l_open"
           ELSE /\ tasks'[t].file = tasks[t].arg
                /\ pendingFileToOpen' = pendingFileToOpen]_vars

\* the record task t has read is expired
ReadExpired(t) == tasks[t].tok # <<>> /\ isTokenExpired(tasks[t].tok[1])

\* the refresh that is awaited fails, resp. succeeds, in this step
RefreshFails == \E u \in Tasks : tasks[u].pc = "r_deleted" /\ tasks'[u].pc # "r_deleted"
RefreshSucceeds == \E u \in Tasks : tasks[u].pc = "r_stored" /\ tasks'[u].pc # "r_stored"

C20_ForceRefreshResult ==
  [][\A t \in Tasks :
       (tasks[t].op = "ftr" /\ tasks[t].pc # "done" /\ tasks'[t].pc = "done") =>
         IF tasks'[t].res = 1
           THEN /\ tasks[t].pc \in {"r_stored", "join"}
                /\ \E u \in Tasks : tasks[u].pc = "r_stored" /\ store' = tasks[u].tok
           ELSE /\ tasks'[t].res = 0
                /\ \/ /\ tasks[t].pc = "f_got"
                      /\ tasks[t].tok = <<>> \/ tasks[t].tok[1].refresh_token = 0
                   \/ tasks[t].pc \in {"r_deleted", "join"} /\ RefreshFails]_vars

\* the call of isTokenExpired made in this step takes slot t
IsTokenExpiredCalled(t) ==
  /\ calls' # calls
  /\ NextFree(t)
  /\ tasks'[t].op = "expired"

\* the record has no expiration metadata: no expires_in or no issued_at
NoExpiryMetadata(tokenData) == tokenData.expires_in = 0 \/ tokenData.issued_at = 0

\* C21 as stated: isTokenExpired is true exactly when the record is absent,
\* has no expiration metadata, or now > issued_at + expires_in.
C21_ExpiredExactly ==
  [][\A t \in Tasks :
       IsTokenExpiredCalled(t) =>
         LET tokens == tasks'[t].tok IN
         tasks'[t].res =
           (\/ tokens = <<>>
            \/ NoExpiryMetadata(tokens[1])
            \/ now > (tokens[1].issued_at + tokens[1].expires_in) * TicksPerSec)]_vars

\* C21, amended: isTokenExpired is true for an absent record; a record with
\* an expires_at is expired exactly when now > expires_at, whatever its other
\* fields; a record without expires_at is expired exactly when it has no
\* expires_in, no issued_at, or now > issued_at + expires_in.
C21_ExpiredExactlyAmended ==
  [][\A t \in Tasks :
       IsTokenExpiredCalled(t) =>
         LET tokens == tasks'[t].tok IN
         tasks'[t].res =
           (\/ tokens = <<>>
            \/ /\ tokens[1].expires_at # 0
               /\ now > tokens[1].expires_at * TicksPerSec
            \/ /\ tokens[1].expires_at = 0
               /\ \/ NoExpiryMetadata(tokens[1])
                  \/ now > (tokens[1].issued_at + tokens[1].expires_in) * TicksPerSec)]_vars

\* isTokenExpired has found a record valid at the very instant it expires
C21_Witness ==
  \E t \in Tasks :
    /\ tasks[t].op = "expired"
    /\ tasks[t].tok # <<>>
    /\ tasks[t].tok[1].expires_at = 0
    /\ tasks[t].tok[1].expires_in # 0
    /\ now = (tasks[t].tok[1].issued_at + tasks[t].tok[1].expires_in) * TicksPerSec
    /\ tasks[t].res = FALSE

\* C22: the record a code exchange or a refresh hands to the store carries
\* the time of that moment as its issued_at, whatever issued_at the provider
\* has sent; the store is written only with such a record, as it was handed
\* over.
C22_IssuedAtStamped ==
  [][/\ \A t \in Tasks :
          /\ (/\ tasks[t].pc \in {"x_fetch", "r_fetch"}
              /\ tasks'[t].pc \in {"x_store", "r_store"}) =>
                tasks'[t].tok[1].issued_at = NowSeconds
          /\ (/\ tasks[t].pc \in {"x_store", "r_store"}
              /\ tasks'[t].pc \in {"x_stored", "r_stored"}) =>
                store' = tasks[t].tok
     /\ (store' # store /\ store' # <<>>) =>
          \E t \in Tasks : /\ tasks[t].pc \in {"x_store", "r_store"}
                           /\ tasks'[t].pc \in {"x_stored", "r_stored"}]_vars

\* a refresh has stored a record for which the provider had sent an
\* issued_at of its own
C22_Witness ==
  /\ store # <<>>
  /\ store[1].expires_in = 1
  /\ store[1].issued_at = NowSeconds
  /\ store[1].access_token = 2
  /\ refreshRequests = 1
  /\ \E t \in Tasks : tasks[t].pc = "r_stored"

\* the callback URLs that pass every check of handleOAuthCallback before
\* exchangeCodeForTokens is called
ExchangeableUrls ==
  {u \in CallbackUrls : u.parsable /\ u.error = 0 /\ u.code # 0 /\ u.state = pkce.state}

\* C23: an exchange request is sent only while a session is active; when
\* exchangeCodeForTokens is called without one it fails with the missing
\* verifier error and sends nothing; a successful exchange clears verifier,
\* challenge and state, and a session that comes after it has a verifier
\* never used before.
C23_SessionSingleUse ==
  [][/\ calls' # calls =>
          \A t \in Tasks :
            /\ (NextFree(t) /\ tasks'[t].pc = "x_fetch") => pkce.codeVerifier # 0
            /\ (authState = "authenticating" /\ pkce.codeVerifier = 0) =>
                 \A url \in ExchangeableUrls :
                   HandleOAuthCallback(t, url) =>
                     /\ tasks'[t].pc = "done" /\ tasks'[t].res = "error"
                     /\ ExchangesInFlight' = ExchangesInFlight
                     /\ loginWindow => lastAuthError' = <<"Code verifier not found", 0>>
     /\ \A t \in Tasks :
          (tasks[t].pc = "x_fetch" /\ tasks'[t].pc = "x_store") => pkce' = NoPKCE
     /\ (pkce'.codeVerifier # pkce.codeVerifier /\ pkce'.codeVerifier # 0) =>
          pkce'.codeVerifier > randomSeq]_vars

\* a callback was refused for the missing verifier after an exchange had
\* succeeded and cleared the session
C23_Witness ==
  /\ lastAuthError = <<"Code verifier not found", 0>>
  /\ pkce = NoPKCE
  /\ tokenSeq = 1
  /\ \E t \in Tasks : /\ tasks[t].op = "callback" /\ tasks[t].pc = "done"
                       /\ tasks[t].res = "error"

\* startBackend / startProcess of backend n is called in this step
StartCalled(n) == starts[n].st = "none" /\ starts'[n].st # "none"

\* C24: a start with a missing executable has failed when the call returns,
\* at the time of the call, with the executable-not-found result
\* (SimpleBackendManager: with the ENOENT error of spawn); no process runs and
\* nothing is in the registry for it, then and later.
C24_MissingExecutable ==
  [][\A n \in Backends :
       exe[n] = "missing" =>
         /\ StartCalled(n) =>
              /\ starts'[n] = Failure(IF IsSimple THEN "spawn ENOENT"
                                      ELSE "Backend executable not found")
              /\ procs'[n].state = (IF IsSimple THEN "unspawned" ELSE "none")
              /\ bclock' = bclock
         /\ procs'[n].state \notin {"running", "exited"}
         /\ procs'[n].signals = 0
         /\ \A i \in 1..Len(processes') : processes'[i].name # n]_vars

\* backend1 was started after backend2 had announced its port, and failed at
\* once for its missing executable
C24_Witness ==
  /\ variant = "sequential"
  /\ exe["backend1"] = "missing"
  /\ starts["backend1"] = Failure("Backend executable not found")
  /\ starts["backend2"].st = "ok"
  /\ procs["backend1"].timer = "off"
  /\ batch = "failed"

\* the entries of the registry for backend n
EntriesOf(reg, n) == {i \in 1..Len(reg) : reg[i].name = n}

\* the batch fails in this step, and its shutdown() empties the registry
ShutDownNow == batch # "failed" /\ batch' = "failed" /\ ~IsSimple

PortObserved(n) == procs[n].seen > 0

\* C26: when the watchdog of a process fires and no port of it was observed,
\* the process, if it runs, is sent a signal, and its start has failed, with
\* the timeout if it was pending; when a port was observed, the watchdog
\* sends no signal and leaves the result of the start.
C26_Watchdog ==
  [][\A n \in Backends :
       (procs[n].timer = "armed" /\ procs'[n].timer = "fired") =>
         IF PortObserved(n)
           THEN /\ procs'[n].signals = procs[n].signals
                /\ starts'[n] = starts[n]
           ELSE /\ procs[n].state = "running" =>
                     procs'[n].signals = procs[n].signals + 1
                /\ starts'[n].st = "failed"
                /\ starts[n].st = "pending" =>
                     starts'[n].error \in {"Timeout waiting for port assignment",
                                           "timeout"}]_vars

C28_NothingLeftRunning ==
  batch = "failed" =>
    /\ \A n \in Backends : procs[n].state = "running" => procs[n].signals > 0
    /\ processes = <<>>

\* C29: in the sequential managers backend1 is spawned only when the start
\* of backend2 has succeeded by an announcement, with the port of that
\* result in its environment, and is not started when the start of backend2
\* has failed.
C29_SequentialDependency ==
  variant \in {"sequential", "simple"} =>
    /\ procs["backend1"].state # "none" =>
         /\ starts["backend2"].st = "ok"
         /\ PortObserved("backend2")
         /\ procs["backend1"].env = starts["backend2"].port
    /\ starts["backend2"].st \in {"none", "pending", "failed"} =>
         /\ procs["backend1"].state = "none"
         /\ starts["backend1"].st = "none"

\* backend1 runs with the port backend2 has announced, and the start of
\* another batch has failed before its backend1 was started
C29_Witness ==
  /\ variant = "sequential"
  /\ procs["backend1"].state = "running"
  /\ procs["backend1"].env = 5002
  /\ starts["backend2"] = Success(5002)
  /\ batch = "wait1"

\* C30: shutdown() sends a signal to every process of the registry that
\* runs and to no other, and leaves the registry and the ports empty; called
\* with an empty registry it sends no signal and changes nothing.
C30_ShutdownIdempotent ==
  [][shutdowns' # shutdowns =>
       /\ \A n \in Backends :
            procs'[n].signals =
              (IF n \in Registered(BM) /\ procs[n].state = "running"
                 THEN procs[n].signals + 1 ELSE procs[n].signals)
       /\ processes' = <<>>
       /\ ports' = NoPorts
       /\ processes = <<>> =>
            UNCHANGED <<batch, starts, procs, processes, ports, serviceRegistry>>]_vars

\* C31: the step in which AdvancedBackendManager has collected both ports
\* ends startBackends with success, with the port of every start in the
\* port map, and sends the discovery requests; a step in which a discovery
\* request is answered, with whatever outcome, changes neither the result
\* of the batch nor the port map nor the registry and sends no signal.
C31_NotifyFailureNotFatal ==
  [][/\ (variant = "advanced" /\ batch # "ok" /\ batch' = "ok") =>
          /\ ports' = [n \in Backends |-> starts'[n].port]
          /\ \A n \in Backends : starts'[n].st = "ok" /\ notify'[n] = "sent"
     /\ notify' # notify /\ notify # [n \in Backends |-> "none"] =>
          UNCHANGED <<batch, starts, procs, processes, ports, serviceRegistry>>]_vars

\* one discovery request has failed with a connection error, the other got a
\* response other than 200, and the batch has succeeded with both ports
C31_Witness ==
  /\ notify["backend1"] = "error"
  /\ notify["backend2"] = "500"
  /\ batch = "ok"
  /\ \A n \in Backends : ports[n] \in Ports /\ procs[n].signals = 0
  /\ Len(processes) = 2

\* startBackends is suspended at an await
BatchInFlight == batch \in {"wait2", "wait1", "waitAll"}

\* C32: a start that is pending is settled, with success or failure, at
\* some later time, and a startBackends that is suspended has returned or
\* failed at some later time.
C32_EveryStartSettles ==
  /\ \A n \in Backends :
       (starts[n].st = "pending") ~> (starts[n].st \in {"ok", "failed"})
  /\ BatchInFlight ~> (batch \in {"ok", "failed"})

\* a process has exited with code 0 without an announcement, and its start
\* was settled by the watchdog; the batch has failed
C32_Witness ==
  \E n \in Backends :
    /\ procs[n].state = "exited" /\ procs[n].seen = 0 /\ procs[n].signals = 0
    /\ procs[n].timer = "fired"
    /\ starts[n].st = "failed"
    /\ starts[n].error \in {"Timeout waiting for port assignment", "timeout"}
    /\ batch = "failed"

\* C34: the before-quit handler prevents the quit at most once.
C34_QuitPreventedOnce == prevented <= 1

\* C35: when shutdown() is called while startBackends is suspended, every
\* process that runs when it returns was sent a signal; and once it was
\* called so, no announcement adds a process to the registry while
\* startBackends is still suspended.
C35_ShutdownInFlight ==
  [][/\ (shutdowns' # shutdowns /\ BatchInFlight) =>
          \A n \in Backends :
            procs'[n].state = "running" => procs'[n].signals > 0
     /\ (shutdowns > 0 /\ BatchInFlight) =>
          Len(processes') <= Len(processes)]_vars

\* task t sends the exchange request of a callback in this step
SendsExchange(t) == tasks[t].pc # "x_fetch" /\ tasks'[t].pc = "x_fetch"

\* C33: an exchange request is sent only when no other call of
\* handleOAuthCallback has sent one for the same login (the same state
\* value) and is still waiting for its answer or storing its record.
C33_OneExchangePerLogin ==
  [][\A t \in Tasks :
       SendsExchange(t) =>
         \A u \in Tasks \ {t} :
           tasks[u].pc \in {"x_fetch", "x_store", "x_stored"} =>
             tasks[u].arg.state # tasks'[t].arg.state]_vars

\* The call in slot t is a callback suspended in its exchange or its store,
\* the call in slot u is a logout that has returned, and no other slot was
\* ever taken.  A call takes the lowest free slot, so no call was made since
\* the logout returned, and the callback passed its guard before that.
LogoutDuringExchange(t, u) ==
  /\ tasks[u].op = "logout" /\ tasks[u].pc = "done"
  /\ tasks[t].pc \in {"x_fetch", "x_store", "x_stored"}
  /\ \A v \in Tasks \ {t, u} : tasks[v].op = "none"

\* C36: after a logout has returned while the exchange of a callback was in
\* flight, every step in which no new call is made leaves the state
\* unauthenticated and the store empty.
C36_LogoutWins ==
  [][\A t, u \in Tasks :
       (LogoutDuringExchange(t, u) /\ calls' = calls) =>
         /\ authState' = "unauthenticated"
         /\ store' = <<>>]_vars

\* The getValidAccessToken call in slot t is in its catch, about to delete
\* the tokens, after the refresh it started or joined has failed: only a
\* record with a refresh token is refreshed.  The failing refresh has deleted
\* the record before it settled, so a record the store holds now was stored
\* after that refresh had started.
CleanupAfterFailedRefresh(t) ==
  /\ tasks[t].pc = "g_del"
  /\ tasks[t].tok # <<>>
  /\ tasks[t].tok[1].refresh_token # 0

\* C37: the deleteTokens of a getValidAccessToken call whose refresh has
\* failed removes no record that was stored after that refresh started.
C37_CleanupKeepsNewerRecord ==
  [][\A t \in Tasks :
       (CleanupAfterFailedRefresh(t) /\ store # <<>>) =>
         ~(tasks'[t].pc = "g_deleted" /\ store' = <<>>)]_vars

\* the handleOAuthCallback call in slot t returns in this step
CallbackReturns(t) ==
  /\ calls' = calls
  /\ tasks[t].op = "callback"
  /\ tasks[t].pc # "done" /\ tasks'[t].pc = "done"

\* C38: a handleOAuthCallback call sets the state to authenticated only
\* after its store write, which has put the record of its exchange into the
\* store; a call whose exchange or store write fails returns with the state
\* unauthenticated and has written nothing.
C38_AuthenticatedAfterStore ==
  [][\A t \in Tasks :
       /\ CallbackReturns(t) =>
            IF tasks[t].pc = "x_stored"
              THEN authState' = "authenticated" /\ tasks'[t].res = "ok"
              ELSE /\ tasks[t].pc \in {"x_fetch", "x_store"}
                   /\ authState' = "unauthenticated"
                   /\ tasks'[t].res = "error"
                   /\ store' = store
       /\ (tasks[t].pc # "x_stored" /\ tasks'[t].pc = "x_stored") =>
            /\ tasks[t].pc = "x_store"
            /\ store' = tasks[t].tok]_vars

\* the store write of a callback has failed: the call has returned an error
\* in the unauthenticated state, and the store is empty
C38_Witness ==
  /\ \E t \in Tasks : /\ tasks[t].op = "callback" /\ tasks[t].pc = "done"
                      /\ tasks[t].res = "error"
  /\ lastAuthError = <<"Failed to store tokens", 0>>
  /\ tokenSeq = 1
  /\ authState = "unauthenticated"
  /\ store = <<>>

\* the call in slot t is in _performTokenRefresh, which has not settled
Performing(t) ==
  tasks[t].pc \in {"r_fetch", "r_store", "r_stored", "r_del", "r_deleted"}

\* the _performTokenRefresh of the call in slot t settles in this step
Settles(t) ==
  tasks[t].pc \in {"r_stored", "r_deleted"} /\ tasks'[t].pc # tasks[t].pc

\* C39: the slot holds a refresh exactly while that refresh has not settled
\* and is empty after the step in which it settles, with success or with
\* failure; a call that needs a refresh when the slot is empty sends a new
\* request, and a call that has joined a refresh goes on in the step in
\* which that refresh settles, never on a refresh settled before.
C39_SlotClearedOnSettle ==
  [][/\ refreshPromise # 0 => Performing(refreshPromise)
     /\ \A t \in Tasks :
          /\ Performing(t) => refreshPromise = t
          /\ Settles(t) => refreshPromise' = 0
          /\ (~Performing(t) /\ tasks'[t].pc = "r_fetch") =>
               /\ refreshPromise = 0 /\ refreshPromise' = t
               /\ refreshRequests' = refreshRequests + 1
          /\ (tasks[t].pc # "join" /\ tasks'[t].pc = "join") =>
               refreshPromise # 0 /\ refreshPromise' = refreshPromise
          /\ (tasks[t].pc = "join" /\ tasks'[t].pc # "join") =>
               refreshPromise # 0 /\ Settles(refreshPromise)]_vars

\* a refresh has failed and settled, and a later call has sent a request
\* of its own
C39_Witness ==
  /\ refreshRequests = 2
  /\ tokenSeq = 0
  /\ refreshPromise # 0
  /\ tasks[refreshPromise].pc = "r_fetch"
  /\ inFlight = 1

\* C40: the record a successful refresh builds from the response has the
\* refresh token of the response when the response has one, and the refresh
\* token the request was made with when it has none; the store write stores
\* that record, which has a refresh token.
C40_RefreshTokenPreserved ==
  [][\A t \in Tasks :
       /\ (tasks[t].pc = "r_fetch" /\ tasks'[t].pc = "r_store") =>
            LET used == tasks[t].tok[1].refresh_token
                tokenData == tasks'[t].tok[1]
            IN /\ used # 0
               /\ \E shape \in ResponseShapes :
                    LET response == ProviderTokens(tokenSeq', shape) IN
                    /\ tokenData.access_token = response.access_token
                    /\ tokenData.expires_in = response.expires_in
                    /\ tokenData.refresh_token =
                         (IF response.refresh_token # 0
                            THEN response.refresh_token ELSE used)
               /\ tokenData.refresh_token # 0
       /\ (tasks[t].pc = "r_store" /\ tasks'[t].pc = "r_stored") =>
            /\ store' = tasks[t].tok
            /\ store'[1].refresh_token # 0]_vars

\* the record of a refresh whose response had no refresh token is stored
\* with the refresh token of the record before it
C40_Witness ==
  /\ store # <<>>
  /\ store[1].access_token = 1
  /\ store[1].expires_in = 1
  /\ store[1].refresh_token = 100
  /\ refreshPromise = 0
  /\ refreshRequests = 1

====
